---------------------------- MODULE Spec2Model ----------------------------
(***************************************************************************)
(* Model of src/app.py: the billing engine and the profitability report    *)
(* of "Gestao COC Anestesia".                                              *)
(*                                                                         *)
(* Representation.                                                         *)
(*   - A Python str is a sequence of one-character strings, so that        *)
(*     strip / split / replace / int() / float() are computed, not assumed.*)
(*   - An optional value (Python None / pandas NaN) is a sequence of       *)
(*     length at most one: <<>> is absent, <<v>> is present.               *)
(*   - Money read from the fee table is an integer number of centavos;     *)
(*     a billed value ('Valor Virtual') is an integer number of            *)
(*     half-centavos, which makes  preco * 0.5  exact.                     *)
(*   - A duration in hours is an integer number of minutes (hours * 60).   *)
(*   - A quotient (R$/Hora, % Faturamento) is a pair <<num, den>>; no      *)
(*     division is carried out, quotients are compared by cross products.  *)
(*   Binary floating-point rounding is therefore abstracted: arithmetic is *)
(*   exact.                                                                *)
(***************************************************************************)
EXTENDS Integers, Sequences, FiniteSets, TLC

VARIABLES
    pc,                \* position of the running script / function call
    duracao_str,       \* argument of converter_para_horas
    horas_ret,         \* outcome of converter_para_horas
    row,               \* argument of calcular_faturamento_memoria
    fat_ret,           \* return value of calcular_faturamento_memoria
    df_cirurgias,      \* rows of the surgeries table (input order)
    columns,           \* column names of df_cirurgias
    valor_virtual,     \* column 'Valor Virtual'
    horas,             \* column 'Horas'
    rs_hora,           \* column 'R$/Hora'
    faturamento_total, \* line 143
    total_cirurgias,   \* line 144
    ticket_medio,      \* line 145
    df_validos,        \* line 152: index labels kept by dropna
    df_ranking,        \* line 156: index labels in ranking order
    resumo_convenio,   \* lines 217-220: per-agreement summary
    out                \* what the report has shown so far (st.* calls)

vars == <<pc, duracao_str, horas_ret, row, fat_ret, df_cirurgias, columns,
          valor_virtual, horas, rs_hora, faturamento_total, total_cirurgias,
          ticket_medio, df_validos, df_ranking, resumo_convenio, out>>

reportVars == <<df_cirurgias, columns, valor_virtual, horas, rs_hora,
                faturamento_total, total_cirurgias, ticket_medio, df_validos,
                df_ranking, resumo_convenio, out>>

-----------------------------------------------------------------------------
(* Bounds of the model.                                                    *)

\* longest duration text enumerated exhaustively
MaxDurLen == 4
\* most entries in an enumerated procedure list
MaxProcs == 3
\* most rows in an enumerated surgeries table
MaxRows == 2

-----------------------------------------------------------------------------
(* Python str primitives.                                                  *)

None == <<>>
Some(v) == <<v>>

Digits == {"0", "1", "2", "3", "4", "5", "6", "7", "8", "9"}
DigitChars == <<"0", "1", "2", "3", "4", "5", "6", "7", "8", "9">>
DigitVal(c) == (CHOOSE i \in 1..10 : DigitChars[i] = c) - 1

\* characters str.strip() removes
Whitespace == {" ", "\n"}

SetMin(S) == CHOOSE m \in S : \A k \in S : m <= k
SetMax(S) == CHOOSE m \in S : \A k \in S : m >= k

\* str.strip()
Strip(s) ==
    LET keep == {i \in 1..Len(s) : s[i] \notin Whitespace}
    IN  IF keep = {} THEN <<>> ELSE SubSeq(s, SetMin(keep), SetMax(keep))

\* str.find(t) + 1: the first position where t occurs in s, 0 when it does not
Find(s, t) ==
    LET hits == {i \in 1..(Len(s) - Len(t) + 1) : SubSeq(s, i, i + Len(t) - 1) = t}
    IN  IF hits = {} THEN 0 ELSE SetMin(hits)

\* str.split(sep), sep not empty: always at least one part
RECURSIVE Split(_, _)
Split(s, sep) ==
    LET k == Find(s, sep)
    IN  IF k = 0 THEN <<s>>
        ELSE <<SubSeq(s, 1, k - 1)>> \o Split(SubSeq(s, k + Len(sep), Len(s)), sep)

\* str.replace(old, new), old not empty
RECURSIVE Replace(_, _, _)
Replace(s, old, new) ==
    LET k == Find(s, old)
    IN  IF k = 0 THEN s
        ELSE SubSeq(s, 1, k - 1) \o new \o Replace(SubSeq(s, k + Len(old), Len(s)), old, new)

\* str.isdigit()
IsDigit(s) == s # <<>> /\ \A i \in 1..Len(s) : s[i] \in Digits

\* value of a non-empty run of digits
RECURSIVE DigitsVal(_)
DigitsVal(s) ==
    IF s = <<>> THEN 0 ELSE 10 * DigitsVal(SubSeq(s, 1, Len(s) - 1)) + DigitVal(s[Len(s)])

\* int(text): surrounding whitespace, one optional sign, then digits only.
\* <<>> stands for the ValueError int() raises on anything else.
PyInt(s) ==
    LET t == Strip(s)
        neg == t # <<>> /\ t[1] = "-"
        body == IF t # <<>> /\ t[1] \in {"-", "+"} THEN Tail(t) ELSE t
    IN  IF IsDigit(body)
        THEN Some(IF neg THEN 0 - DigitsVal(body) ELSE DigitsVal(body))
        ELSE None

-----------------------------------------------------------------------------
(* converter_para_horas, lines 74-84.                                      *)

Return(v) == [exc |-> FALSE, val |-> v]
Raise == [exc |-> TRUE, val |-> None]

NanText == <<"n", "a", "n">>

\* the legacy variant: no check of the number of parts
converter_body_loose(s) ==
    LET texto == Strip(s)
        partes == Split(texto, <<":">>)
    IN  IF texto = <<>> \/ texto = NanText THEN Return(None)
        ELSE IF Len(partes) < 2 THEN Raise
        ELSE IF PyInt(partes[1]) = None \/ PyInt(partes[2]) = None THEN Raise
        ELSE Return(Some(60 * PyInt(partes[1])[1] + PyInt(partes[2])[1]))

\* the body of the try block, lines 76-82: Raise is an exception leaving it
converter_body(s) ==
    LET texto == Strip(s)
        partes == Split(texto, <<":">>)
    IN  IF texto = <<>> \/ texto = NanText THEN Return(None)
        ELSE IF Len(partes) # 2 THEN Return(None)
        ELSE IF PyInt(partes[1]) = None \/ PyInt(partes[2]) = None THEN Raise
        ELSE Return(Some(60 * PyInt(partes[1])[1] + PyInt(partes[2])[1]))

\* lines 74-84: the bare except turns every exception into None
converter_para_horas(s) ==
    LET r == converter_body(s)
    IN  IF r.exc THEN Return(None) ELSE r

-----------------------------------------------------------------------------
(* limpar_moeda, lines 62-69.                                              *)

RECURSIVE SeqSum(_)
SeqSum(q) == IF q = <<>> THEN 0 ELSE Head(q) + SeqSum(Tail(q))

\* float(text) in centavos: surrounding whitespace, one optional sign, digits
\* with at most one '.', at least one digit.  <<>> stands for the ValueError
\* float() raises on anything else.  Exact for up to two fractional digits,
\* which is all the fee tables enumerated below contain.
PyFloat(s) ==
    LET t == Strip(s)
        neg == t # <<>> /\ t[1] = "-"
        body == IF t # <<>> /\ t[1] \in {"-", "+"} THEN Tail(t) ELSE t
        parts == Split(body, <<".">>)
        ip == parts[1]
        fp == IF Len(parts) = 2 THEN parts[2] ELSE <<>>
        digitsOnly(q) == \A i \in 1..Len(q) : q[i] \in Digits
        frac == DigitsVal(SubSeq(fp \o <<"0", "0">>, 1, 2))
        mag == 100 * DigitsVal(ip) + frac
    IN  IF Len(parts) <= 2 /\ digitsOnly(ip) /\ digitsOnly(fp) /\ Len(ip) + Len(fp) > 0
        THEN Some(IF neg THEN 0 - mag ELSE mag)
        ELSE None

\* lines 62-69, result in centavos
limpar_moeda(valor) ==
    IF Strip(valor) \in {<<"-">>, <<>>, <<"0">>} THEN 0
    ELSE LET valor_str == Strip(Replace(Replace(Replace(valor, <<"R", "$">>, <<>>),
                                                <<".">>, <<>>), <<",">>, <<".">>))
             f == PyFloat(valor_str)
         IN  IF f = None THEN 0 ELSE f[1]

-----------------------------------------------------------------------------
(* Reference tables, lines 86-87.  The tables are input data; the ones     *)
(* below hold every kind of row the pricing code distinguishes.            *)

\* Código -> 'Porte Anest.'
mapa_cbhpm ==
    (<<"A">> :> <<"1">>) @@ (<<"B">> :> <<"2">>) @@ (<<"C">> :> <<"3">>)
    @@ (<<"D">> :> <<"2", "A">>)     \* size class that is not a number
    @@ (<<"E">> :> <<"9">>)          \* size class with no AN column
    @@ (<<>> :> <<"1">>)             \* a row whose code cell is blank

\* Convênio -> fee-schedule row (column name -> currency text)
mapa_convenios ==
    (<<"X">> :> ((<<"A", "N", "1">> :> <<"1", "0", "0">>)
                 @@ (<<"A", "N", "2">> :> <<"5", "0">>)
                 @@ (<<"A", "N", "3">> :> <<"R", "$", " ", "2", "0", ",", "0", "0">>)))
    @@ (<<"Y">> :> ((<<"A", "N", "1">> :> <<"2", "0", "0", ",", "0", "0">>)
                    @@ (<<"A", "N", "2">> :> <<"1", ".", "0", "0", "0", ",", "5", "0">>)
                    @@ (<<"A", "N", "3">> :> <<"-">>)))

-----------------------------------------------------------------------------
(* calcular_faturamento_memoria, lines 89-119.                             *)

\* row.get(col, ''), lines 90-91
RowGet(r, col) == IF col \in DOMAIN r THEN r[col] ELSE <<>>

\* line 103: proc.split(" - ")[0].strip()
CodigoDe(proc) == Strip(Split(proc, <<" ", "-", " ">>)[1])

\* lines 108-113: the price in centavos of a procedure found in mapa_cbhpm
PrecoDe(linha_convenio, codigo) ==
    LET porte == Strip(mapa_cbhpm[codigo])
        col_an == <<"A", "N">> \o porte
    IN  IF IsDigit(porte) /\ col_an \in DOMAIN linha_convenio
        THEN limpar_moeda(linha_convenio[col_an])
        ELSE 0

\* the loop counting only the entries it finds: the first entry found is paid in full
RECURSIVE LoopProcsByFound(_, _, _, _)
LoopProcsByFound(lista_procs, i, linha_convenio, valor_total) ==
    IF lista_procs = <<>> THEN valor_total
    ELSE LET codigo == CodigoDe(Head(lista_procs))
         IN  IF codigo \notin DOMAIN mapa_cbhpm
             THEN LoopProcsByFound(Tail(lista_procs), i, linha_convenio, valor_total)
             ELSE LoopProcsByFound(Tail(lista_procs), i + 1, linha_convenio,
                      valor_total + (IF i = 0 THEN 2 ELSE 1) * PrecoDe(linha_convenio, codigo))

\* the loop paying every entry in full
RECURSIVE LoopProcsNoDiscount(_, _, _, _)
LoopProcsNoDiscount(lista_procs, i, linha_convenio, valor_total) ==
    IF lista_procs = <<>> THEN valor_total
    ELSE LET codigo == CodigoDe(Head(lista_procs))
         IN  IF codigo \notin DOMAIN mapa_cbhpm
             THEN LoopProcsNoDiscount(Tail(lista_procs), i + 1, linha_convenio, valor_total)
             ELSE LoopProcsNoDiscount(Tail(lista_procs), i + 1, linha_convenio,
                      valor_total + 2 * PrecoDe(linha_convenio, codigo))

\* lines 102-118, from index i on; valor_total in half-centavos
RECURSIVE LoopProcs(_, _, _, _)
LoopProcs(lista_procs, i, linha_convenio, valor_total) ==
    IF lista_procs = <<>> THEN valor_total
    ELSE LET codigo == CodigoDe(Head(lista_procs))
         IN  IF codigo \notin DOMAIN mapa_cbhpm
             THEN LoopProcs(Tail(lista_procs), i + 1, linha_convenio, valor_total)
             ELSE LoopProcs(Tail(lista_procs), i + 1, linha_convenio,
                      valor_total + (IF i = 0 THEN 2 ELSE 1) * PrecoDe(linha_convenio, codigo))

\* the guard of line 92 without its test of the empty procedure text
GuardaEntradaSemVazio(convenio, procs_str) ==
    convenio = <<>> \/ procs_str = NanText

\* line 92: the inputs for which nothing is billed
GuardaEntrada(convenio, procs_str) ==
    convenio = <<>> \/ procs_str = <<>> \/ procs_str = NanText

\* lines 89-119, result in half-centavos
calcular_faturamento_memoria(r) ==
    LET convenio == Strip(RowGet(r, "CONVENIO"))
        procs_str == Strip(RowGet(r, "PROCEDIMENTO"))
    IN  IF GuardaEntrada(convenio, procs_str) THEN 0
        ELSE IF convenio \notin DOMAIN mapa_convenios THEN 0
        ELSE LoopProcs(Split(procs_str, <<"\n">>), 0, mapa_convenios[convenio], 0)

-----------------------------------------------------------------------------
(* Values of the variables a specification does not use.                   *)

IdleReport ==
    /\ df_cirurgias = <<>>
    /\ columns = {}
    /\ valor_virtual = <<>>
    /\ horas = <<>>
    /\ rs_hora = <<>>
    /\ faturamento_total = 0
    /\ total_cirurgias = 0
    /\ ticket_medio = <<0, 1>>
    /\ df_validos = <<>>
    /\ df_ranking = <<>>
    /\ resumo_convenio = <<>>
    /\ out = {}

IdleHoras == duracao_str = <<>> /\ horas_ret = Return(None)

IdleFat == row = <<>> /\ fat_ret = 0

-----------------------------------------------------------------------------
(* SpecHoras: converter_para_horas applied to every short text.            *)

DurChars == {"0", "2", "3", ":", " ", "-", "a", "n"}

RECURSIVE StringsUpTo(_, _)
StringsUpTo(chars, n) ==
    IF n = 0 THEN {<<>>}
    ELSE LET shorter == StringsUpTo(chars, n - 1)
         IN  shorter \cup {Append(s, c) : s \in shorter, c \in chars}

\* the texts of the documented examples that are longer than MaxDurLen or use
\* other characters
DurExamples ==
    { <<"1", ":", "2", ":", "3">>, <<"a", "b", "c">>, <<"1", "0", ":", "4", "5">>,
      <<" ", "2", ":", "3", "0", " ">>, <<"-", "1", ":", "3", "0">> }

DurArgs == StringsUpTo(DurChars, MaxDurLen) \cup DurExamples

InitHoras ==
    /\ pc = "horas_call"
    /\ duracao_str \in DurArgs
    /\ horas_ret = Return(None)
    /\ IdleFat
    /\ IdleReport

HorasCall ==
    /\ pc = "horas_call"
    /\ horas_ret' = converter_para_horas(duracao_str)
    /\ pc' = "horas_done"
    /\ UNCHANGED <<duracao_str, row, fat_ret, reportVars>>

SpecHoras == InitHoras /\ [][HorasCall]_vars

-----------------------------------------------------------------------------
(* SpecFat: calcular_faturamento_memoria applied to enumerated rows.       *)

ConvenioArgs == { <<>>, <<" ">>, <<"X">>, <<" ", "X", " ">>, <<"Y">>, <<"Z">> }

\* one line of a PROCEDIMENTO cell: "code - description"
ProcEntries ==
    { <<"A">>, <<"B">>, <<"C">>, <<"D">>, <<"E">>, <<"U">>, <<>>,
      <<"A", " ", "-", " ", "d">>, <<" ", "B">> }

RECURSIVE Join(_, _)
Join(parts, sep) ==
    IF Len(parts) = 0 THEN <<>>
    ELSE IF Len(parts) = 1 THEN parts[1]
    ELSE parts[1] \o sep \o Join(Tail(parts), sep)

RECURSIVE SeqsUpTo(_, _)
SeqsUpTo(S, n) ==
    IF n = 0 THEN {<<>>}
    ELSE LET shorter == SeqsUpTo(S, n - 1)
         IN  shorter \cup {Append(q, e) : q \in shorter, e \in S}

ProcTexts ==
    {Join(q, <<"\n">>) : q \in SeqsUpTo(ProcEntries, MaxProcs)}
    \cup { NanText, <<" ">>, <<" ", "n", "a", "n", "\n">> }

FatRows ==
    {("CONVENIO" :> c) @@ ("PROCEDIMENTO" :> p) : c \in ConvenioArgs, p \in ProcTexts}
    \cup {("CONVENIO" :> c) : c \in ConvenioArgs}
    \cup {("PROCEDIMENTO" :> p) : p \in {<<"A">>, <<"A", "\n", "B">>}}

InitFat ==
    /\ pc = "fat_call"
    /\ row \in FatRows
    /\ fat_ret = 0
    /\ IdleHoras
    /\ IdleReport

FatCall ==
    /\ pc = "fat_call"
    /\ fat_ret' = calcular_faturamento_memoria(row)
    /\ pc' = "fat_done"
    /\ UNCHANGED <<row, duracao_str, horas_ret, reportVars>>

SpecFat == InitFat /\ [][FatCall]_vars

-----------------------------------------------------------------------------
(* Spec: one run of the report script, lines 124-243.                      *)

ReportConvenios == { <<"X">>, <<"Y">> }
ReportProcs == { <<"A">>, <<"A", "\n", "B">>, <<"U">> }
ReportDuracoes ==
    { <<"1", ":", "0", "0">>, <<"2", ":", "0", "0">>, <<"0", ":", "0", "0">>,
      <<"-", "1", ":", "0", "0">>, <<>> }

RowsWithDuracao ==
    {("CONVENIO" :> c) @@ ("PROCEDIMENTO" :> p) @@ ("DURACAO" :> d) :
        c \in ReportConvenios, p \in ReportProcs, d \in ReportDuracoes}

RowsWithoutDuracao ==
    {("CONVENIO" :> c) @@ ("PROCEDIMENTO" :> p) : c \in ReportConvenios, p \in ReportProcs}

\* what st.* calls put on the page
InfoVazio == "info: Nenhuma cirurgia registrada."
ErroDuracao == "error: Coluna DURACAO nao encontrada."
Headline == {"metric: Faturamento Total", "metric: N Cirurgias", "metric: Ticket Medio"}
RankingShown == {"subheader: Ranking por R$/Hora", "dataframe: df_ranking"}
ExportShown == {"download_button: Relatorio_COC_Anestesia_Estilizado.xlsx"}
ResumoShown ==
    {"subheader: Analise Estrategica por Convenio", "metric: Maior Faturamento",
     "metric: Mais Rentavel", "metric: Menos Rentavel", "bar_chart: Valor Virtual",
     "bar_chart: R$/Hora", "dataframe: resumo_exibicao"}

\* the index labels 1..n of a table of n rows
Indices(n) == [i \in 1..n |-> i]

\* a >= b for quotients with positive denominators
QuoGeq(a, b) == a[1] * b[2] >= b[1] * a[2]

\* every order of the elements of q
Reorderings(q) ==
    {[i \in 1..Len(q) |-> q[f[i]]] :
        f \in {g \in [1..Len(q) -> 1..Len(q)] : \A a, b \in 1..Len(q) : a # b => g[a] # g[b]}}

InitReport ==
    /\ pc = "check_empty"
    /\ df_cirurgias \in SeqsUpTo(RowsWithDuracao, MaxRows) \cup SeqsUpTo(RowsWithoutDuracao, MaxRows)
    /\ columns = (IF df_cirurgias = <<>> THEN {} ELSE DOMAIN df_cirurgias[1])
    /\ valor_virtual = <<>>
    /\ horas = <<>>
    /\ rs_hora = <<>>
    /\ faturamento_total = 0
    /\ total_cirurgias = 0
    /\ ticket_medio = <<0, 1>>
    /\ df_validos = <<>>
    /\ df_ranking = <<>>
    /\ resumo_convenio = <<>>
    /\ out = {"subheader: Ranking de Rentabilidade"}
    /\ IdleHoras
    /\ IdleFat

\* the check of lines 126-128 without its st.stop()
CheckEmptyNoStop ==
    /\ pc = "check_empty"
    /\ pc' = "apply_valor"
    /\ UNCHANGED <<out, df_cirurgias, columns, valor_virtual, horas, rs_hora, faturamento_total,
                   total_cirurgias, ticket_medio, df_validos, df_ranking, resumo_convenio,
                   duracao_str, horas_ret, row, fat_ret>>

\* lines 126-128
CheckEmpty ==
    /\ pc = "check_empty"
    /\ IF df_cirurgias = <<>>
       THEN out' = out \cup {InfoVazio} /\ pc' = "stopped"
       ELSE out' = out /\ pc' = "apply_valor"
    /\ UNCHANGED <<df_cirurgias, columns, valor_virtual, horas, rs_hora, faturamento_total,
                   total_cirurgias, ticket_medio, df_validos, df_ranking, resumo_convenio,
                   duracao_str, horas_ret, row, fat_ret>>

\* line 130
ApplyValorVirtual ==
    /\ pc = "apply_valor"
    /\ valor_virtual' = [i \in 1..Len(df_cirurgias) |-> calcular_faturamento_memoria(df_cirurgias[i])]
    /\ columns' = columns \cup {"Valor Virtual"}
    /\ pc' = "check_duracao"
    /\ UNCHANGED <<out, df_cirurgias, horas, rs_hora, faturamento_total,
                   total_cirurgias, ticket_medio, df_validos, df_ranking, resumo_convenio,
                   duracao_str, horas_ret, row, fat_ret>>

\* lines 132-134
CheckDuracao ==
    /\ pc = "check_duracao"
    /\ IF "DURACAO" \notin columns
       THEN out' = out \cup {ErroDuracao} /\ pc' = "stopped"
       ELSE out' = out /\ pc' = "apply_horas"
    /\ UNCHANGED <<df_cirurgias, columns, valor_virtual, horas, rs_hora, faturamento_total,
                   total_cirurgias, ticket_medio, df_validos, df_ranking, resumo_convenio,
                   duracao_str, horas_ret, row, fat_ret>>

\* line 136
ApplyHoras ==
    /\ pc = "apply_horas"
    /\ horas' = [i \in 1..Len(df_cirurgias) |-> converter_para_horas(df_cirurgias[i]["DURACAO"]).val]
    /\ columns' = columns \cup {"Horas"}
    /\ pc' = "apply_rs_hora"
    /\ UNCHANGED <<out, df_cirurgias, valor_virtual, rs_hora, faturamento_total,
                   total_cirurgias, ticket_medio, df_validos, df_ranking, resumo_convenio,
                   duracao_str, horas_ret, row, fat_ret>>

\* the lambda with >= in place of >
RsHoraDeGeq(valor, h) ==
    IF h # None /\ h[1] >= 0 THEN Some(<<valor, h[1]>>) ELSE None

\* the lambda of lines 138-139: the quotient valor / h, or None
RsHoraDe(valor, h) ==
    IF h # None /\ h[1] > 0 THEN Some(<<valor, h[1]>>) ELSE None

\* lines 137-141
ApplyRsHora ==
    /\ pc = "apply_rs_hora"
    /\ rs_hora' = [i \in 1..Len(df_cirurgias) |-> RsHoraDe(valor_virtual[i], horas[i])]
    /\ columns' = columns \cup {"R$/Hora"}
    /\ pc' = "totals"
    /\ UNCHANGED <<out, df_cirurgias, valor_virtual, horas, faturamento_total,
                   total_cirurgias, ticket_medio, df_validos, df_ranking, resumo_convenio,
                   duracao_str, horas_ret, row, fat_ret>>

\* lines 143-150
Totals ==
    /\ pc = "totals"
    /\ faturamento_total' = SeqSum(valor_virtual)
    /\ total_cirurgias' = Len(df_cirurgias)
    /\ ticket_medio' = (IF total_cirurgias' # 0 THEN <<faturamento_total', total_cirurgias'>>
                        ELSE <<0, 1>>)
    /\ out' = out \cup Headline
    /\ pc' = "dropna"
    /\ UNCHANGED <<df_cirurgias, columns, valor_virtual, horas, rs_hora,
                   df_validos, df_ranking, resumo_convenio,
                   duracao_str, horas_ret, row, fat_ret>>

\* a filter that also drops the rows whose R$/Hora is 0
ManterPositivo(i) == rs_hora[i] # None /\ rs_hora[i][1][1] > 0

\* line 152: dropna(subset=['R$/Hora']) keeps the rows whose R$/Hora is present
Manter(i) == rs_hora[i] # None

\* line 152
DropNa ==
    /\ pc = "dropna"
    /\ df_validos' = SelectSeq(Indices(Len(df_cirurgias)), Manter)
    /\ pc' = "ranking"
    /\ UNCHANGED <<out, df_cirurgias, columns, valor_virtual, horas, rs_hora, faturamento_total,
                   total_cirurgias, ticket_medio, df_ranking, resumo_convenio,
                   duracao_str, horas_ret, row, fat_ret>>

\* line 156: sort_values(by='R$/Hora', ascending=False) uses its default
\* kind='quicksort', which is not a stable sort: the result is some order in
\* which R$/Hora never increases, rows of equal R$/Hora in any order
SortByRsHoraDesc(q) ==
    {p \in Reorderings(q) :
        \A i \in 1..(Len(p) - 1) : QuoGeq(rs_hora[p[i]][1], rs_hora[p[i + 1]][1])}

\* lines 154-157
Ranking ==
    /\ pc = "ranking"
    /\ IF df_validos = <<>>
       THEN df_ranking' = df_ranking /\ out' = out /\ pc' = "done"
       ELSE /\ df_ranking' \in SortByRsHoraDesc(df_validos)
            /\ out' = out \cup RankingShown
            /\ pc' = "export"
    /\ UNCHANGED <<df_cirurgias, columns, valor_virtual, horas, rs_hora, faturamento_total,
                   total_cirurgias, ticket_medio, df_validos, resumo_convenio,
                   duracao_str, horas_ret, row, fat_ret>>

\* lines 162-211: the workbook is built from df_ranking; a missing logo file
\* only adds a warning
Export ==
    /\ pc = "export"
    /\ \E logo_found \in BOOLEAN :
          out' = out \cup ExportShown
                     \cup (IF logo_found THEN {} ELSE {"warning: logo"})
    /\ pc' = "resumo"
    /\ UNCHANGED <<df_cirurgias, columns, valor_virtual, horas, rs_hora, faturamento_total,
                   total_cirurgias, ticket_medio, df_validos, df_ranking, resumo_convenio,
                   duracao_str, horas_ret, row, fat_ret>>

\* a summary grouped over every row of df_cirurgias
BaseResumoTodas == Indices(Len(df_cirurgias))

\* line 217: the rows the groupby runs over
BaseResumo == df_validos

\* line 217: the groups of groupby('CONVÊNIO'), keyed by the raw cell
Grupos == {df_cirurgias[BaseResumo[k]]["CONVENIO"] : k \in 1..Len(BaseResumo)}

\* line 217: agg sum of a column over the rows of BaseResumo in group g
RECURSIVE SomaGrupo(_, _, _)
SomaGrupo(g, col, k) ==
    IF k = 0 THEN 0
    ELSE SomaGrupo(g, col, k - 1)
         + (IF df_cirurgias[BaseResumo[k]]["CONVENIO"] = g THEN col[BaseResumo[k]] ELSE 0)

\* column 'Horas' as sum() reads it: an absent value adds nothing
HorasOuZero == [i \in 1..Len(horas) |-> IF horas[i] = None THEN 0 ELSE horas[i][1]]

\* lines 217-219: one row of the summary
LinhaResumo(g) ==
    LET valor == SomaGrupo(g, valor_virtual, Len(BaseResumo))
        hs == SomaGrupo(g, HorasOuZero, Len(BaseResumo))
    IN  [convenio |-> g,
         valor |-> valor,
         horas |-> hs,
         rs_hora |-> <<valor, hs>>,
         pct |-> IF faturamento_total > 0 THEN <<valor * 100, faturamento_total>> ELSE <<0, 1>>]

\* line 220: sort_values(by='Valor Virtual', ascending=False), the same sort
SortByValorDesc(S) ==
    {p \in [1..Cardinality(S) -> S] :
        /\ \A a, b \in 1..Cardinality(S) : a # b => p[a] # p[b]
        /\ \A i \in 1..(Cardinality(S) - 1) : p[i].valor >= p[i + 1].valor}

\* lines 216-243
Resumo ==
    /\ pc = "resumo"
    /\ resumo_convenio' \in SortByValorDesc({LinhaResumo(g) : g \in Grupos})
    /\ out' = out \cup ResumoShown
    /\ pc' = "done"
    /\ UNCHANGED <<df_cirurgias, columns, valor_virtual, horas, rs_hora, faturamento_total,
                   total_cirurgias, ticket_medio, df_validos, df_ranking,
                   duracao_str, horas_ret, row, fat_ret>>

Next ==
    \/ CheckEmpty
    \/ ApplyValorVirtual
    \/ CheckDuracao
    \/ ApplyHoras
    \/ ApplyRsHora
    \/ Totals
    \/ DropNa
    \/ Ranking
    \/ Export
    \/ Resumo

Spec == InitReport /\ [][Next]_vars

-----------------------------------------------------------------------------
(* Properties of calcular_faturamento_memoria, checked under SpecFat.      *)

ConvenioDaRow == Strip(RowGet(row, "CONVENIO"))
ProcsDaRow == Strip(RowGet(row, "PROCEDIMENTO"))

\* the price in centavos of each entry of a split procedure list: the
\* fee-schedule price of its size class, 0 for a code the table does not hold
PrecosDasEntradas(linha_convenio, lista) ==
    [i \in 1..Len(lista) |->
        IF CodigoDe(lista[i]) \in DOMAIN mapa_cbhpm
        THEN PrecoDe(linha_convenio, CodigoDe(lista[i]))
        ELSE 0]

RowABC == ("CONVENIO" :> <<"X">>) @@ ("PROCEDIMENTO" :> <<"A", "\n", "B", "\n", "C">>)

\* C1: for an agreement of the fee table and a procedure text that is neither
\* empty nor 'nan', the result is the price of the entry at index 0 of the
\* newline-split text plus half the price of every later entry (in
\* half-centavos: twice the first price plus the other prices); prices
\* [100, 50, 20] give 135.
C1_PositionalDiscount ==
    (pc = "fat_done" /\ ConvenioDaRow \in DOMAIN mapa_convenios
        /\ ProcsDaRow # <<>> /\ ProcsDaRow # NanText)
    => LET precos == PrecosDasEntradas(mapa_convenios[ConvenioDaRow],
                                       Split(ProcsDaRow, <<"\n">>))
       IN  /\ fat_ret = 2 * precos[1] + SeqSum(Tail(precos))
           /\ (row = RowABC => fat_ret = 27000)

\* C1 witness: the list [A, B, C] priced [100, 50, 20] has been billed 135.00
C1_Witness ==
    pc = "fat_done" /\ row = RowABC /\ fat_ret = 27000

\* C5: nothing is billed when the trimmed agreement name is empty or is not a
\* key of the fee table, or when the trimmed procedure text is empty or 'nan'.
C5_ZeroOnMissingInput ==
    (pc = "fat_done"
        /\ (\/ ConvenioDaRow = <<>>
            \/ ConvenioDaRow \notin DOMAIN mapa_convenios
            \/ ProcsDaRow = <<>>
            \/ ProcsDaRow = NanText))
    => fat_ret = 0

\* C5 witness: an unknown agreement with a list that has a price under every
\* known agreement has been billed 0
C5_Witness ==
    /\ pc = "fat_done"
    /\ ConvenioDaRow = <<"Z">>
    /\ ProcsDaRow = <<"A", "\n", "B">>
    /\ fat_ret = 0

\* the positions of the split list whose code is not in the procedure table
PosicoesDesconhecidas(lista) ==
    {k \in 1..Len(lista) : CodigoDe(lista[k]) \notin DOMAIN mapa_cbhpm}

\* the row with entry k of its procedure list replaced by code D, which the
\* procedure table holds and which has price 0 under every agreement
RowComZeroEm(k) ==
    LET lista == Split(ProcsDaRow, <<"\n">>)
    IN  ("CONVENIO" :> ConvenioDaRow)
        @@ ("PROCEDIMENTO" :> Join([lista EXCEPT ![k] = <<"D">>], <<"\n">>))

\* C6: for a known agreement, an entry whose code is unknown does not end the
\* computation and contributes zero: the total is that of the same list with
\* a zero-priced known procedure at that position, wherever the position is.
C6_UnknownCodeSkipped ==
    (pc = "fat_done" /\ ConvenioDaRow \in DOMAIN mapa_convenios
        /\ ProcsDaRow # <<>> /\ ProcsDaRow # NanText)
    => \A k \in PosicoesDesconhecidas(Split(ProcsDaRow, <<"\n">>)) :
          fat_ret = calcular_faturamento_memoria(RowComZeroEm(k))

\* C6 witness: [U, A, B] under X: the unknown first entry adds nothing and A
\* and B are each billed at 50%
C6_Witness ==
    /\ pc = "fat_done"
    /\ row = ("CONVENIO" :> <<"X">>) @@ ("PROCEDIMENTO" :> <<"U", "\n", "A", "\n", "B">>)
    /\ fat_ret = 15000

-----------------------------------------------------------------------------
(* Properties of converter_para_horas, checked under SpecHoras.            *)

RECURSIVE Pow10(_)
Pow10(n) == IF n = 0 THEN 1 ELSE 10 * Pow10(n - 1)

\* the unsigned part of a trimmed integer literal
SemSinal(q) == IF q # <<>> /\ q[1] \in {"-", "+"} THEN Tail(q) ELSE q

\* p reads as an integer: optional sign, then one or more digits
IsIntLiteral(p) ==
    LET b == SemSinal(Strip(p))
    IN  Len(b) > 0 /\ \A i \in 1..Len(b) : b[i] \in Digits

\* the integer p reads as
IntLiteralVal(p) ==
    LET q == Strip(p)
        b == SemSinal(q)
        mag == SeqSum([i \in 1..Len(b) |-> DigitVal(b[i]) * Pow10(Len(b) - i)])
    IN  IF q[1] = "-" THEN 0 - mag ELSE mag

\* the text is "HOURS:MINUTES": one ':' with an integer on each side
TwoIntParts(t) ==
    LET colons == {i \in 1..Len(t) : t[i] = ":"}
    IN  /\ Cardinality(colons) = 1
        /\ LET k == CHOOSE i \in colons : TRUE
           IN  IsIntLiteral(SubSeq(t, 1, k - 1)) /\ IsIntLiteral(SubSeq(t, k + 1, Len(t)))

HoursOf(t) ==
    LET k == CHOOSE i \in 1..Len(t) : t[i] = ":"
    IN  60 * IntLiteralVal(SubSeq(t, 1, k - 1)) + IntLiteralVal(SubSeq(t, k + 1, Len(t)))

\* C7: converter_para_horas never raises; it returns a value exactly when the
\* trimmed text is not empty, not 'nan', and is two integers around one ':',
\* and the value is then hours + minutes/60 (in minutes: 60*hours + minutes,
\* "2:30" gives 2.5 hours); otherwise it returns absent, never zero.
C7_DurationParse ==
    pc = "horas_done"
    => LET t == Strip(duracao_str)
       IN  /\ ~horas_ret.exc
           /\ IF t # <<>> /\ t # NanText /\ TwoIntParts(t)
              THEN horas_ret.val = Some(HoursOf(t))
              ELSE horas_ret.val = None
           /\ (duracao_str = <<"2", ":", "3", "0">> => horas_ret.val = Some(150))

\* C7 witness: "2:30" has been converted to 2.5 hours
C7_Witness ==
    pc = "horas_done" /\ duracao_str = <<"2", ":", "3", "0">> /\ horas_ret.val = Some(150)

-----------------------------------------------------------------------------
(* Properties of the report run, checked under Spec.                       *)

AfterRsHora == pc \in {"totals", "dropna", "ranking", "export", "resumo", "done"}
AfterTotals == pc \in {"dropna", "ranking", "export", "resumo", "done"}
AfterRanking == pc \in {"export", "resumo", "done"}
ResumoProduced == pc = "done" /\ df_validos # <<>>

InSeq(x, q) == \E k \in 1..Len(q) : q[k] = x

\* the rows whose parsed hours are present and > 0
ComHoras == {i \in 1..Len(df_cirurgias) : horas[i] # None /\ horas[i][1] > 0}

RECURSIVE SumOver(_, _)
SumOver(S, f) ==
    IF S = {} THEN 0
    ELSE LET x == CHOOSE y \in S : TRUE IN f[x] + SumOver(S \ {x}, f)

\* C2: in every summary produced, the revenue shares of all agreements sum to
\* 100 when the total billed value is > 0, and every share is 0 when it is 0.
C2_SharesSumTo100 ==
    ResumoProduced
    => /\ faturamento_total > 0
          => SeqSum([k \in 1..Len(resumo_convenio) |-> resumo_convenio[k].pct[1]])
                = 100 * faturamento_total
       /\ faturamento_total = 0
          => \A k \in 1..Len(resumo_convenio) : resumo_convenio[k].pct[1] = 0

\* C3: R$/Hora is absent exactly when the parsed hours are absent or <= 0 and
\* is otherwise valor / hours; a row with absent R$/Hora is in neither the
\* ranking nor the summary, and still counts in the total billed value, the
\* number of surgeries and the average ticket.
C3_AbsentRsHora ==
    /\ AfterRsHora
       => \A i \in 1..Len(df_cirurgias) :
             IF i \in ComHoras
             THEN rs_hora[i] = Some(<<valor_virtual[i], horas[i][1]>>)
             ELSE rs_hora[i] = None
    /\ AfterTotals
       => /\ faturamento_total = SumOver(1..Len(df_cirurgias), valor_virtual)
          /\ total_cirurgias = Len(df_cirurgias)
          /\ ticket_medio = <<faturamento_total, total_cirurgias>>
    /\ AfterRanking
       => \A i \in 1..Len(df_cirurgias) : rs_hora[i] = None => ~InSeq(i, df_ranking)
    /\ ResumoProduced
       => /\ {resumo_convenio[k].convenio : k \in 1..Len(resumo_convenio)}
                = {df_cirurgias[i]["CONVENIO"] : i \in ComHoras}
          /\ \A k \in 1..Len(resumo_convenio) :
                LET doGrupo == {i \in ComHoras :
                                  df_cirurgias[i]["CONVENIO"] = resumo_convenio[k].convenio}
                IN  /\ resumo_convenio[k].valor = SumOver(doGrupo, valor_virtual)
                    /\ resumo_convenio[k].horas = SumOver(doGrupo, HorasOuZero)

\* C3 witness: a finished report in which a row with a billed value and no
\* positive hours was left out of the ranking while another row was ranked
C3_Witness ==
    /\ ResumoProduced
    /\ \E i \in 1..Len(df_cirurgias) :
          /\ rs_hora[i] = None
          /\ valor_virtual[i] > 0
          /\ ~InSeq(i, df_ranking)
          /\ faturamento_total > valor_virtual[i]

StructuralError == df_cirurgias = <<>> \/ "DURACAO" \notin DOMAIN df_cirurgias[1]

\* C4: when the surgeries table is empty or has no DURACAO column the run
\* never gets past the structural checks: it shows no headline totals, no
\* ranking, no export and no summary, and where it stops it has shown the
\* message of the check that failed.
C4_StructuralHalt ==
    StructuralError
    => /\ pc \in {"check_empty", "apply_valor", "check_duracao", "stopped"}
       /\ out \cap (Headline \cup RankingShown \cup ExportShown \cup ResumoShown) = {}
       /\ pc = "stopped"
          => IF df_cirurgias = <<>> THEN InfoVazio \in out ELSE ErroDuracao \in out

\* C4 witness: a table with rows and no DURACAO column has stopped the run
\* with the error message
C4_Witness ==
    /\ pc = "stopped"
    /\ df_cirurgias # <<>>
    /\ ErroDuracao \in out
    /\ valor_virtual # <<>>

\* rows a and b, a before b in the input, keep that order in the sequence q
KeepsOrder(q, a, b) ==
    \A ka, kb \in 1..Len(q) : (q[ka] = a /\ q[kb] = b) => ka < kb

\* C8: the ranking is a permutation of the rows with a present R$/Hora, in
\* non-increasing R$/Hora, rows of equal R$/Hora in their input order.
C8_StableRanking ==
    AfterRanking
    => /\ Len(df_ranking) = Cardinality({i \in 1..Len(df_cirurgias) : rs_hora[i] # None})
       /\ \A i \in 1..Len(df_cirurgias) : rs_hora[i] # None => InSeq(i, df_ranking)
       /\ \A k \in 1..(Len(df_ranking) - 1) :
             QuoGeq(rs_hora[df_ranking[k]][1], rs_hora[df_ranking[k + 1]][1])
       /\ \A a, b \in 1..Len(df_cirurgias) :
             (/\ a < b
              /\ rs_hora[a] # None
              /\ rs_hora[b] # None
              /\ QuoGeq(rs_hora[a][1], rs_hora[b][1])
              /\ QuoGeq(rs_hora[b][1], rs_hora[a][1]))
             => KeepsOrder(df_ranking, a, b)

\* the rows that are ranked, and those that feed the summary
Ranked == {df_ranking[k] : k \in 1..Len(df_ranking)}
Summarised == {df_validos[k] : k \in 1..Len(df_validos)}

\* C9 as stated: every row that is ranked or summarised has a present and
\* strictly positive R$/Hora, and a row with positive hours and a billed value
\* of 0 is not among them.
C9_PositiveRsHoraOnly ==
    AfterRanking
    => /\ \A i \in Ranked \cup Summarised : rs_hora[i] # None /\ rs_hora[i][1][1] > 0
       /\ \A i \in ComHoras : valor_virtual[i] = 0 => i \notin Ranked \cup Summarised

\* C9 amended: every row that is ranked or summarised has a present R$/Hora,
\* that is, parsed hours > 0; a row with positive hours and a billed value of 0
\* has R$/Hora = 0 and is ranked and summarised like any other.
C9_PresentRsHoraOnly ==
    /\ AfterRanking
       => /\ \A i \in Ranked \cup Summarised : rs_hora[i] # None /\ i \in ComHoras
          /\ \A i \in ComHoras :
                valor_virtual[i] = 0
                => /\ rs_hora[i] = Some(<<0, horas[i][1]>>)
                   /\ i \in Ranked
                   /\ i \in Summarised
    /\ ResumoProduced
       => \A i \in ComHoras :
             \E k \in 1..Len(resumo_convenio) :
                resumo_convenio[k].convenio = df_cirurgias[i]["CONVENIO"]

\* C9 witness: a finished report whose ranking holds a row billed 0 over
\* positive hours
C9_Witness ==
    /\ ResumoProduced
    /\ \E i \in Ranked : valor_virtual[i] = 0 /\ horas[i][1] > 0

\* C10: every row of a summary has total hours > 0, so the group R$/Hora is
\* never a quotient by zero.
C10_GroupHoursPositive ==
    pc = "done"
    => \A k \in 1..Len(resumo_convenio) :
          /\ resumo_convenio[k].horas > 0
          /\ resumo_convenio[k].rs_hora = <<resumo_convenio[k].valor, resumo_convenio[k].horas>>

\* C10 witness: a summary was produced for an agreement that also has a
\* surgery of zero hours
C10_Witness ==
    /\ ResumoProduced
    /\ \E k \in 1..Len(resumo_convenio) :
          \E i \in 1..Len(df_cirurgias) :
             /\ df_cirurgias[i]["CONVENIO"] = resumo_convenio[k].convenio
             /\ horas[i] = Some(0)

=============================================================================
